---------------------------- MODULE Spec2Model ----------------------------
(***************************************************************************)
(* Model of the WinINet HTTP driver helpers of                             *)
(* implant/sliver/transports/httpclient/drivers/win/wininet/               *)
(* utils_windows.go: queryResponse, getCookies, getHeaders, readResponse   *)
(* and buildResponse, together with the package-level variable `cookies`.  *)
(*                                                                         *)
(* Strings and byte slices are sequences of one-character strings, so that *)
(* splitting, prefix tests and decimal parsing are computed character by   *)
(* character as the Go library functions compute them.                     *)
(***************************************************************************)
EXTENDS Integers, Sequences, FiniteSets, TLC

(***************************************************************************)
(* Bounds of the model.                                                    *)
(***************************************************************************)
\* the engine holds at most this many Set-Cookie fields per response
MaxCookies == 2
\* the engine delivers at most this many body chunks per response
MaxChunks == 2
\* largest byte count the engine reports as available for one chunk
MaxAvail == 2
\* a raw header block holds at most this many CRLF-separated lines
MaxLines == 3

(***************************************************************************)
(* Go strings: helpers over sequences of characters.                       *)
(***************************************************************************)
\* s[from..] (1-based), the empty string when from is past the end
Tail_(s, from) == SubSeq(s, from, Len(s))

\* strings.HasPrefix
HasPrefix(s, prefix) ==
    /\ Len(s) >= Len(prefix)
    /\ SubSeq(s, 1, Len(prefix)) = prefix

\* strings.Index, 1-based; 0 when sep does not occur in s
Index(s, sep) ==
    LET hits == { i \in 1..(Len(s) - Len(sep) + 1) :
                    SubSeq(s, i, i + Len(sep) - 1) = sep }
    IN IF hits = {} THEN 0
       ELSE CHOOSE i \in hits : \A j \in hits : i <= j

\* strings.SplitN(s, sep, 2): cut once at the first sep, or <<s>> when absent
SplitN2(s, sep) ==
    LET i == Index(s, sep)
    IN IF i = 0 THEN <<s>>
       ELSE <<SubSeq(s, 1, i - 1), Tail_(s, i + Len(sep))>>

\* strings.Split(s, sep) for a non-empty sep: every piece between separators
RECURSIVE Split(_, _)
Split(s, sep) ==
    LET i == Index(s, sep)
    IN IF i = 0 THEN <<s>>
       ELSE <<SubSeq(s, 1, i - 1)>> \o Split(Tail_(s, i + Len(sep)), sep)

\* unicode.IsSpace on the ASCII range
IsSpace(c) == c \in {" ", "\t", "\n", "\r", "\f"}

\* strings.Fields: the maximal runs of non-space characters
RECURSIVE Fields(_)
Fields(s) ==
    IF s = <<>> THEN <<>>
    ELSE IF IsSpace(s[1]) THEN Fields(Tail(s))
    ELSE LET stops == { i \in 1..Len(s) : IsSpace(s[i]) }
             stop  == IF stops = {} THEN Len(s) + 1
                      ELSE CHOOSE i \in stops : \A j \in stops : i <= j
         IN <<SubSeq(s, 1, stop - 1)>> \o Fields(Tail_(s, stop))

\* strings.Replace(s, old, new, 1): the first occurrence only
Replace1(s, old, new) ==
    LET i == Index(s, old)
    IN IF i = 0 THEN s
       ELSE SubSeq(s, 1, i - 1) \o new \o Tail_(s, i + Len(old))

Digits == {"0", "1", "2", "3", "4", "5", "6", "7", "8", "9"}

DigitVal(c) ==
    CASE c = "0" -> 0 [] c = "1" -> 1 [] c = "2" -> 2 [] c = "3" -> 3
      [] c = "4" -> 4 [] c = "5" -> 5 [] c = "6" -> 6 [] c = "7" -> 7
      [] c = "8" -> 8 [] c = "9" -> 9

RECURSIVE DecimalValue(_, _)
DecimalValue(s, acc) ==
    IF s = <<>> THEN acc
    ELSE DecimalValue(Tail(s), acc * 10 + DigitVal(s[1]))

\* a parse that takes any text, reading the digits it finds
ParseIntLenient(s) ==
    [ok |-> TRUE,
     val |-> DecimalValue(SelectSeq(s, LAMBDA c : c \in Digits), 0)]

\* strconv.ParseInt(s, 10, 64): an optional sign, then one or more decimal
\* digits; anything else is a syntax error.  More than 19 digits are
\* out of the range of 64 bits (a range error); every text of the model has
\* either at most 3 digits or 20.
ParseInt(s) ==
    LET signed == s # <<>> /\ s[1] \in {"+", "-"}
        digits == IF signed THEN Tail(s) ELSE s
    IN IF \/ digits = <<>>
          \/ \E i \in 1..Len(digits) : digits[i] \notin Digits
          \/ Len(digits) > 19
       THEN [ok |-> FALSE, val |-> 0]
       ELSE [ok |-> TRUE,
             val |-> IF signed /\ s[1] = "-"
                     THEN 0 - DecimalValue(digits, 0)
                     ELSE DecimalValue(digits, 0)]


(***************************************************************************)
(* Texts of the model.                                                     *)
(***************************************************************************)
CRLF == <<"\r", "\n">>
ColonSpace == <<":", " ">>
HTTPToken == <<"H", "T", "T", "P">>
HTTPSlash == <<"H", "T", "T", "P", "/">>
Dot == <<".">>
Equals == <<"=">>
Space == <<" ">>

T200 == <<"2", "0", "0">>
T404 == <<"4", "0", "4">>
T2x == <<"2", "x">>
TNotFound == <<"N", "o", "t", " ", "F", "o", "u", "n", "d">>

CkC3 == <<"C", "=", "3">>
CkD4 == <<"D", "=", "4">>
CkAbc == <<"A", "=", "b", "=", "c">>
CkBare == <<"x">>

LnA1 == <<"A", ":", " ", "1">>
LnB2 == <<"B", ":", " ", "2">>
LnA3 == <<"A", ":", " ", "3">>
LnKvw == <<"k", ":", " ", "v", ":", " ", "w">>
LnStatus == <<"H", "T", "T", "P", "/", "1", ".", "1", " ", "2", "0", "0", " ", "O", "K">>
LnJunk == <<"j", "u", "n", "k">>
LnEmpty == <<>>
LnBadVer == <<"H", "T", "T", "P", "/", "1", ".", "x", " ", "2", "0", "0", " ", "O", "K">>
LnNoDot == <<"H", "T", "T", "P", "/", "2", " ", "2", "0", "0">>
LnBadMajor == <<"H", "T", "T", "P", "/", "x", ".", "1", " ", "2", "0", "0">>
LnHTTPKey == <<"H", "T", "T", "P", ":", " ", "x">>

\* lines joined by CRLF, as the engine lays out a raw header block
RECURSIVE JoinCRLF(_)
JoinCRLF(lines) ==
    IF lines = <<>> THEN <<>>
    ELSE IF Len(lines) = 1 THEN lines[1]
    ELSE lines[1] \o CRLF \o JoinCRLF(Tail(lines))

BlockOK == JoinCRLF(<<LnStatus, LnA1, LnA3, LnEmpty, LnEmpty>>)
BlockBare == JoinCRLF(<<LnB2, LnJunk>>)
BlockBadVer == JoinCRLF(<<LnBadVer, LnA1>>)

(***************************************************************************)
(* Values of the program.                                                  *)
(***************************************************************************)
\* the request handles (one per buildResponse caller)
Handles == {1, 2}

\* info levels passed to HTTPQueryInfoW
HTTPQueryStatusCode == "HTTPQueryStatusCode"
HTTPQueryStatusText == "HTTPQueryStatusText"
HTTPQuerySetCookie == "HTTPQuerySetCookie"
HTTPQueryRawHeadersCRLF == "HTTPQueryRawHeadersCRLF"

NoErr == "nil"
QueryInfoError == "failed to query info"
StatusInvalid == "status invalid"
VersionInvalid == "invalid HTTP version"
QueryDataError == "failed to query data available"
ReadDataError == "failed to read data"

Cookie(name, value) == [Name |-> name, Value |-> value]
CookieA1 == Cookie(<<"A">>, <<"1">>)
CookieB2 == Cookie(<<"B">>, <<"2">>)

NoResponse == [none |-> TRUE]
NoQuery == [none |-> TRUE]

\* the header map of getHeaders before any line is read
EmptyHdrs == [k \in {} |-> <<>>]


(***************************************************************************)
(* The native engine (package wininet, outside this file).                 *)
(***************************************************************************)
\* one reply of HTTPQueryInfoW: the bytes on success, the size it reports
Ok(bytes) == [ok |-> TRUE, bytes |-> bytes, size |-> Len(bytes)]
Fail(size) == [ok |-> FALSE, bytes |-> <<>>, size |-> size]

\* The replies the engine may give to the first call of a query and to a
\* retry, when the field asked for holds one of `pool` (or is absent): the
\* first call delivers the field, or fails reporting the size it needs; the
\* retry delivers it or fails; an absent field fails both calls.
EngineRuns(pool) ==
    { <<Ok(d), Ok(d)>> : d \in pool }
      \cup { <<Fail(Len(d)), Ok(d)>> : d \in pool }
      \cup { <<Fail(Len(d)), Fail(Len(d))>> : d \in pool }
      \cup { <<Fail(0), Fail(0)>> }

\* the k-th byte of the response body the engine streams
StreamByte(k) == <<"a", "b", "c">>[((k - 1) % 3) + 1]
Stream(from, n) == [k \in 1..n |-> StreamByte(from + k - 1)]
NUL == "NUL"

\* The buffers InternetReadFile may hand back for a read of `size` bytes at
\* stream offset `from`: n delivered bytes, alone or at the front of the
\* whole zero-filled buffer; n < size only when the engine reads short.
ReadFileBuffers(from, size, short) ==
    LET counts == IF short THEN 0..size ELSE {size}
    IN { Stream(from, n) : n \in counts }
         \cup { Stream(from, n) \o [k \in 1..(size - n) |-> NUL] :
                   n \in counts }

(***************************************************************************)
(* queryResponse, lines 239-266.  r1 and r2 are the engine's replies to    *)
(* the first call and to the retry; calls lists the HTTPQueryInfoW calls   *)
(* made, each with the length of the buffer passed.                        *)
(***************************************************************************)
queryResponseNoRetry(info, idx, r1, r2) ==
    LET i == IF idx < 0 THEN 0 ELSE idx
        first == [info |-> info, idx |-> i, buf |-> 0]
    IN IF r1.ok
       THEN [buffer |-> r1.bytes, err |-> NoErr, calls |-> <<first>>]
       ELSE [buffer |-> <<>>, err |-> QueryInfoError, calls |-> <<first>>]

queryResponse(info, idx, r1, r2) ==
    LET i == IF idx < 0 THEN 0 ELSE idx
        first == [info |-> info, idx |-> i, buf |-> 0]
        retry == [info |-> info, idx |-> i, buf |-> r1.size]
    IN IF r1.ok
       THEN [buffer |-> r1.bytes, err |-> NoErr, calls |-> <<first>>]
       ELSE IF r2.ok
            THEN [buffer |-> r2.bytes, err |-> NoErr,
                  calls |-> <<first, retry>>]
            ELSE [buffer |-> <<>>, err |-> QueryInfoError,
                  calls |-> <<first, retry>>]

(***************************************************************************)
(* getHeaders, lines 188-237.                                              *)
(***************************************************************************)
HdrStart ==
    [proto |-> <<>>, major |-> 0, minor |-> 0, hdrs |-> EmptyHdrs,
     err |-> NoErr]

\* the error return of getHeaders: "", 0, 0, nil, e
HdrFail(e) ==
    [proto |-> <<>>, major |-> 0, minor |-> 0, hdrs |-> EmptyHdrs, err |-> e]

\* a map that keeps the last value of a key only
AddHeaderOverwrite(hdrs, k, v) ==
    [x \in DOMAIN hdrs \cup {k} |-> IF x = k THEN <<v>> ELSE hdrs[x]]

\* hdrs[k] = append(hdrs[k], v), creating the key when new (lines 209-213)
AddHeader(hdrs, k, v) ==
    IF k \in DOMAIN hdrs
    THEN [hdrs EXCEPT ![k] = Append(@, v)]
    ELSE [x \in DOMAIN hdrs \cup {k} |->
            IF x = k THEN <<v>> ELSE hdrs[x]]

\* a version branch that takes the first field as the protocol whatever
\* its version reads
HdrVersionLenient(acc, hdr) == [acc EXCEPT !.proto = Fields(hdr)[1]]

\* the version branch, lines 215-232
HdrVersion(acc, hdr) ==
    LET proto == Fields(hdr)[1]
        tmp == Split(proto, Dot)
    IN IF Len(tmp) >= 2
       THEN LET major == ParseInt(Replace1(tmp[1], HTTPSlash, <<>>))
                minor == ParseInt(tmp[2])
            IN IF ~major.ok THEN HdrFail(VersionInvalid)
               ELSE IF ~minor.ok THEN HdrFail(VersionInvalid)
               ELSE [acc EXCEPT !.proto = proto, !.major = major.val,
                                !.minor = minor.val]
       ELSE [acc EXCEPT !.proto = proto]

\* a loop that keeps a line without separator as a key of empty value
HdrLineKeepsBare(acc, hdr) ==
    LET tmp == SplitN2(hdr, ColonSpace)
    IN IF Len(tmp) = 2
       THEN [acc EXCEPT !.hdrs = AddHeader(acc.hdrs, tmp[1], tmp[2])]
       ELSE IF HasPrefix(hdr, HTTPToken)
            THEN HdrVersion(acc, hdr)
            ELSE [acc EXCEPT !.hdrs = AddHeader(acc.hdrs, hdr, <<>>)]

\* one iteration of the loop over the lines, lines 205-234
HdrLine(acc, hdr) ==
    LET tmp == SplitN2(hdr, ColonSpace)
    IN IF Len(tmp) = 2
       THEN [acc EXCEPT !.hdrs = AddHeader(acc.hdrs, tmp[1], tmp[2])]
       ELSE IF HasPrefix(hdr, HTTPToken)
            THEN HdrVersion(acc, hdr)
            ELSE acc

RECURSIVE HdrLoop(_, _)
HdrLoop(acc, lines) ==
    IF lines = <<>> \/ acc.err # NoErr THEN acc
    ELSE HdrLoop(HdrLine(acc, lines[1]), Tail(lines))

\* the parse of a raw header block b already queried, lines 205-236
ParseHeaders(b) == HdrLoop(HdrStart, Split(b, CRLF))


(***************************************************************************)
(* State.                                                                  *)
(***************************************************************************)
VARIABLES
    cookies,    \* the package-level variable `cookies` (line 91)
    pc,         \* per handle: where its buildResponse call stands
    req,        \* per handle: the cookies of the Request passed to the call
    loc,        \* per handle: the locals of buildResponse and its callees
    ret,        \* per handle: what the call returned (res, err)
    log,        \* per handle: the engine operations asked of the handle
    lastQuery,  \* per handle: the latest queryResponse invocation
    got,        \* per handle: what the engine delivered during the call
    srv,        \* per handle: what the server's response may hold
    gh,         \* a getHeaders parse observed line by line
    sr,         \* a sendRequest call: its Request, position, engine calls
    br          \* a buildRequest call: its inputs, position, engine calls

vars ==
    <<cookies, pc, req, loc, ret, log, lastQuery, got, srv, gh, sr, br>>

LocStart ==
    [status |-> <<>>, code |-> 0, i |-> 0, gcCookies |-> <<>>,
     proto |-> <<>>, major |-> 0, minor |-> 0, hdrs |-> EmptyHdrs,
     b |-> <<>>, contentLen |-> 0]

RetStart == [res |-> NoResponse, err |-> NoErr]

GotStart ==
    [code |-> <<>>, text |-> <<>>, cookies |-> <<>>, sizes |-> <<>>,
     chunks |-> <<>>, sent |-> 0, short |-> FALSE]

\* What the server's response may hold on a handle: the texts of the status
\* code and status text, the Set-Cookie fields, the raw header blocks, the
\* byte counts reported available, the number of chunks, and whether a read
\* may deliver fewer bytes than asked.
Server(codes, texts, cks, blocks, sizes, chunks, short) ==
    [codes |-> codes, texts |-> texts, cookies |-> cks, blocks |-> blocks,
     sizes |-> sizes, chunks |-> chunks, short |-> short]

\* a plain response: 200, one kind of cookie, a well-formed header block, a
\* body of at most one one-byte chunk
SmallServer(ck) ==
    Server({T200}, {<<>>}, {ck}, {BlockOK}, {1}, 1, FALSE)

\* responses that vary in one part each
StatusServer ==
    [SmallServer(CkC3) EXCEPT !.codes = {T200, T404, T2x, <<>>},
                              !.texts = {<<>>, TNotFound}]
CookieServer ==
    [SmallServer(CkC3) EXCEPT !.cookies = {CkC3, CkAbc, CkBare}]
HeaderServer ==
    [SmallServer(CkC3) EXCEPT !.blocks = {BlockOK, BlockBare, BlockBadVer}]
BodyServer ==
    [SmallServer(CkC3) EXCEPT !.sizes = 1..MaxAvail, !.chunks = MaxChunks,
                              !.short = TRUE]

Servers == {StatusServer, CookieServer, HeaderServer, BodyServer}

\* the cookies a Request may carry
ReqCookieChoices == {<<>>, <<CookieA1, CookieB2>>}

\* getHeaders observed line by line: the lines the block was made of, the
\* lines still to read, the number read, the values so far, and the line
\* read last with the values before it
GhIdle ==
    [pc |-> "idle", lines |-> <<>>, todo |-> <<>>, n |-> 0, acc |-> HdrStart,
     line |-> <<>>, before |-> HdrStart]

\* no sendRequest call: no Request, no engine call made
SrIdle ==
    [pc |-> "idle", cookies |-> <<>>, headers |-> <<>>, body |-> <<>>,
     i |-> 0, todo |-> {}, calls |-> <<>>, err |-> NoErr]

\* no buildRequest call: no inputs, no engine call made
BrIdle ==
    [pc |-> "idle", url |-> <<>>, method |-> "", port |-> 0, flags |-> {},
     conn |-> 0, calls |-> <<>>, hndl |-> 0, err |-> NoErr]

\* a Go panic ends the whole program
Crashed == \E p \in Handles : pc[p] = "panic"

InitCalls ==
    /\ cookies = <<>>
    /\ pc = [p \in Handles |-> "idle"]
    /\ req = [p \in Handles |-> <<>>]
    /\ loc = [p \in Handles |-> LocStart]
    /\ ret = [p \in Handles |-> RetStart]
    /\ log = [p \in Handles |-> <<>>]
    /\ lastQuery = [p \in Handles |-> NoQuery]
    /\ got = [p \in Handles |-> GotStart]
    /\ gh = GhIdle
    /\ sr = SrIdle
    /\ br = BrIdle

Init ==
    /\ InitCalls
    /\ \E server \in Servers : srv = [p \in Handles |-> server]

(***************************************************************************)
(* buildResponse, lines 93-159, one action per step.                       *)
(***************************************************************************)
\* the record of a queryResponse invocation: what it was asked, the calls it
\* made, the engine's replies to those calls, and what it returned
QueryRecord(info, idx, run, q) ==
    [info |-> info, idx |-> idx, calls |-> q.calls,
     replies |-> SubSeq(run, 1, Len(q.calls)),
     buffer |-> q.buffer, err |-> q.err]

QueryOp(info, idx) == [op |-> "QueryInfo", info |-> info, idx |-> idx]

\* a return of what was assembled so far together with the error
FailedWithPartial(p, e) ==
    /\ pc' = [pc EXCEPT ![p] = "failed"]
    /\ ret' = [ret EXCEPT ![p] = [res |-> [Body |-> loc[p].b], err |-> e]]

\* return nil, e
Failed(p, e) ==
    /\ pc' = [pc EXCEPT ![p] = "failed"]
    /\ ret' = [ret EXCEPT ![p] = [res |-> NoResponse, err |-> e]]

\* the caller invokes buildResponse(reqHndl, req)
Enter(p) ==
    /\ ~Crashed
    /\ pc[p] = "idle"
    /\ \E cs \in ReqCookieChoices : req' = [req EXCEPT ![p] = cs]
    /\ pc' = [pc EXCEPT ![p] = "statusCode"]
    /\ UNCHANGED <<cookies, loc, ret, log, lastQuery, got, srv, gh, sr, br>>

\* a call made while no other call is in progress
Call(p) ==
    /\ \A q \in Handles \ {p} : pc[q] = "idle"
    /\ Enter(p)

\* a call made whatever the other callers are doing
CallOverlap(p) == Enter(p)

\* lines 106-115
StatusCode(p) ==
    /\ ~Crashed
    /\ pc[p] = "statusCode"
    /\ \E run \in EngineRuns(srv[p].codes) :
         LET q == queryResponse(HTTPQueryStatusCode, 0, run[1], run[2])
             status == q.buffer
             code == ParseInt(status)
         IN /\ lastQuery' = [lastQuery EXCEPT ![p] =
                    QueryRecord(HTTPQueryStatusCode, 0, run, q)]
            /\ log' = [log EXCEPT ![p] =
                    Append(@, QueryOp(HTTPQueryStatusCode, 0))]
            /\ IF q.err # NoErr
               THEN /\ Failed(p, q.err)
                    /\ UNCHANGED <<loc, got>>
               ELSE /\ got' = [got EXCEPT ![p].code = run[Len(q.calls)].bytes]
                    /\ IF ~code.ok
                       THEN /\ Failed(p, StatusInvalid)
                            /\ loc' = [loc EXCEPT ![p].status = status]
                       ELSE /\ loc' = [loc EXCEPT ![p].status = status,
                                                  ![p].code = code.val]
                            /\ pc' = [pc EXCEPT ![p] = "statusText"]
                            /\ UNCHANGED ret
    /\ UNCHANGED <<cookies, req, srv, gh, sr, br>>

\* a status line that always appends the status text
StatusLineAlways(status, b) == status \o Space \o b

\* lines 121-123: status += " " + string(b) when b is not empty
StatusLine(status, b) ==
    IF Len(b) > 0 THEN status \o Space \o b ELSE status

\* lines 117-123
StatusText(p) ==
    /\ ~Crashed
    /\ pc[p] = "statusText"
    /\ \E run \in EngineRuns(srv[p].texts) :
         LET q == queryResponse(HTTPQueryStatusText, 0, run[1], run[2])
         IN /\ lastQuery' = [lastQuery EXCEPT ![p] =
                    QueryRecord(HTTPQueryStatusText, 0, run, q)]
            /\ log' = [log EXCEPT ![p] =
                    Append(@, QueryOp(HTTPQueryStatusText, 0))]
            /\ IF q.err # NoErr
               THEN /\ Failed(p, q.err)
                    /\ UNCHANGED <<loc, got>>
               ELSE /\ got' = [got EXCEPT ![p].text = run[Len(q.calls)].bytes]
                    /\ loc' = [loc EXCEPT ![p].status =
                           StatusLine(@, q.buffer)]
                    /\ pc' = [pc EXCEPT ![p] = "getCookies"]
                    /\ UNCHANGED ret
    /\ UNCHANGED <<cookies, req, srv, gh, sr, br>>


\* strings.SplitN(string(b), "=", 2), line 178
SplitCookie(b) == SplitN2(b, Equals)

\* the loop increment of getCookies, line 168
NextIndexSkip(i) == i + 2

NextIndex(i) == i + 1

\* One iteration of the loop of getCookies (lines 168-183); on the failing
\* probe getCookies returns and buildResponse stores the result in the
\* package-level variable (line 126).  The engine holds no Set-Cookie field
\* at an index of MaxCookies or beyond.
GetCookies(p) ==
    /\ ~Crashed
    /\ pc[p] = "getCookies"
    /\ LET i == loc[p].i
           pool == IF i < MaxCookies THEN srv[p].cookies ELSE {}
       IN \E run \in EngineRuns(pool) :
            LET q == queryResponse(HTTPQuerySetCookie, i, run[1], run[2])
                tmp == SplitCookie(q.buffer)
            IN /\ lastQuery' = [lastQuery EXCEPT ![p] =
                       QueryRecord(HTTPQuerySetCookie, i, run, q)]
               /\ log' = [log EXCEPT ![p] =
                       Append(@, QueryOp(HTTPQuerySetCookie, i))]
               /\ IF q.err # NoErr
                  THEN \* break; return cookies; cookies = getCookies(...)
                       /\ cookies' = loc[p].gcCookies
                       /\ pc' = [pc EXCEPT ![p] = "getHeaders"]
                       /\ UNCHANGED <<loc, got>>
                  ELSE /\ got' = [got EXCEPT ![p].cookies =
                              Append(@, run[Len(q.calls)].bytes)]
                       /\ UNCHANGED cookies
                       /\ IF Len(tmp) < 2
                          THEN \* tmp[1]: index out of range
                               /\ pc' = [pc EXCEPT ![p] = "panic"]
                               /\ UNCHANGED loc
                          ELSE /\ loc' = [loc EXCEPT
                                      ![p].gcCookies =
                                          Append(@, Cookie(tmp[1], tmp[2])),
                                      ![p].i = NextIndex(i)]
                               /\ UNCHANGED pc
    /\ UNCHANGED <<req, ret, srv, gh, sr, br>>

\* lines 128-131, with getHeaders (lines 188-237)
GetHeaders(p) ==
    /\ ~Crashed
    /\ pc[p] = "getHeaders"
    /\ \E run \in EngineRuns(srv[p].blocks) :
         LET q == queryResponse(HTTPQueryRawHeadersCRLF, 0, run[1], run[2])
             h == ParseHeaders(q.buffer)
         IN /\ lastQuery' = [lastQuery EXCEPT ![p] =
                    QueryRecord(HTTPQueryRawHeadersCRLF, 0, run, q)]
            /\ log' = [log EXCEPT ![p] =
                    Append(@, QueryOp(HTTPQueryRawHeadersCRLF, 0))]
            /\ IF q.err # NoErr
               THEN /\ Failed(p, q.err)
                    /\ UNCHANGED loc
               ELSE IF h.err # NoErr
               THEN /\ Failed(p, h.err)
                    /\ UNCHANGED loc
               ELSE /\ loc' = [loc EXCEPT ![p].proto = h.proto,
                                          ![p].major = h.major,
                                          ![p].minor = h.minor,
                                          ![p].hdrs = h.hdrs]
                    /\ pc' = [pc EXCEPT ![p] = "readResponse"]
                    /\ UNCHANGED ret
    /\ UNCHANGED <<cookies, req, got, srv, gh, sr, br>>

\* b = append(b, chunk...), line 299
AccumulateFront(b, chunk) == chunk \o b

Accumulate(b, chunk) == b \o chunk

\* contentLen += chunkLen, line 298
AddLength(contentLen, chunkLen) == contentLen + chunkLen

ReadWithoutQuery(chunkLen) == <<[op |-> "ReadFile", size |-> chunkLen]>>

\* lines 279 and 291: what an iteration that finds chunkLen > 0 bytes
\* available asks of the engine
IterationOps(chunkLen) ==
    <<[op |-> "QueryDataAvailable"], [op |-> "ReadFile", size |-> chunkLen]>>

\* One iteration of the loop of readResponse (lines 277-300), and its
\* return to buildResponse (lines 302-306, 133-136) when the loop ends.
\* The engine delivers at most srv[p].chunks chunks; after them it reports
\* zero bytes available or fails a call.
ReadResponse(p) ==
    /\ ~Crashed
    /\ pc[p] = "readResponse"
    /\ \/ \* InternetQueryDataAvailable fails
          /\ log' = [log EXCEPT ![p] =
                 Append(@, [op |-> "QueryDataAvailable"])]
          /\ Failed(p, QueryDataError)
          /\ UNCHANGED <<loc, got>>
       \/ \* chunkLen == 0: the body is complete
          /\ log' = [log EXCEPT ![p] =
                 Append(@, [op |-> "QueryDataAvailable"])]
          /\ pc' = [pc EXCEPT ![p] = "assemble"]
          /\ UNCHANGED <<loc, ret, got>>
       \/ \* chunkLen > 0, InternetReadFile fails
          /\ Len(got[p].chunks) <= srv[p].chunks
          /\ \E chunkLen \in srv[p].sizes :
               log' = [log EXCEPT ![p] = @ \o IterationOps(chunkLen)]
          /\ Failed(p, ReadDataError)
          /\ UNCHANGED <<loc, got>>
       \/ \* chunkLen > 0, InternetReadFile delivers n <= chunkLen bytes
          /\ Len(got[p].chunks) < srv[p].chunks
          /\ \E chunkLen \in srv[p].sizes :
               \E chunk \in ReadFileBuffers(got[p].sent + 1, chunkLen,
                                            srv[p].short) :
                 LET n == Cardinality({k \in 1..Len(chunk) : chunk[k] # NUL})
                 IN /\ log' = [log EXCEPT ![p] = @ \o IterationOps(chunkLen)]
                    /\ loc' = [loc EXCEPT
                           ![p].contentLen = AddLength(@, chunkLen),
                           ![p].b = Accumulate(@, chunk)]
                    /\ got' = [got EXCEPT
                           ![p].sizes = Append(@, chunkLen),
                           ![p].chunks = Append(@, chunk),
                           ![p].sent = @ + n,
                           ![p].short = @ \/ n < chunkLen]
          /\ UNCHANGED <<pc, ret>>
    /\ UNCHANGED <<cookies, req, lastQuery, srv, gh, sr, br>>

\* Response.AddCookie: the cookie is appended to the response's list
AddCookie(res, c) == [res EXCEPT !.Cookies = Append(@, c)]

RECURSIVE AddCookies(_, _)
AddCookies(res, cs) ==
    IF cs = <<>> THEN res
    ELSE AddCookies(AddCookie(res, cs[1]), Tail(cs))

\* lines 149-156: the request's cookies, then the package-level cookies
ConcatCookiesSwapped(res, reqCookies, cs) ==
    AddCookies(AddCookies(res, cs), reqCookies)

ConcatCookies(res, reqCookies, cs) ==
    AddCookies(AddCookies(res, reqCookies), cs)

\* lines 138-158
Assemble(p) ==
    /\ ~Crashed
    /\ pc[p] = "assemble"
    /\ LET res == [Body |-> loc[p].b,
                   ContentLength |-> loc[p].contentLen,
                   Header |-> loc[p].hdrs,
                   Proto |-> loc[p].proto,
                   ProtoMajor |-> loc[p].major,
                   ProtoMinor |-> loc[p].minor,
                   Status |-> loc[p].status,
                   StatusCode |-> loc[p].code,
                   Cookies |-> <<>>]
       IN ret' = [ret EXCEPT ![p] =
              [res |-> ConcatCookies(res, req[p], cookies), err |-> NoErr]]
    /\ pc' = [pc EXCEPT ![p] = "done"]
    /\ UNCHANGED <<cookies, req, loc, log, lastQuery, got, srv, gh, sr, br>>

\* the caller takes the result; the frame of the call is gone
Release(p) ==
    /\ ~Crashed
    /\ pc[p] \in {"done", "failed"}
    /\ pc' = [pc EXCEPT ![p] = "idle"]
    /\ req' = [req EXCEPT ![p] = <<>>]
    /\ loc' = [loc EXCEPT ![p] = LocStart]
    /\ ret' = [ret EXCEPT ![p] = RetStart]
    /\ log' = [log EXCEPT ![p] = <<>>]
    /\ lastQuery' = [lastQuery EXCEPT ![p] = NoQuery]
    /\ got' = [got EXCEPT ![p] = GotStart]
    /\ UNCHANGED <<cookies, srv, gh, sr, br>>

Step(p) ==
    \/ StatusCode(p)
    \/ StatusText(p)
    \/ GetCookies(p)
    \/ GetHeaders(p)
    \/ ReadResponse(p)
    \/ Assemble(p)
    \/ Release(p)

\* calls that never overlap
Next == \E p \in Handles : Call(p) \/ Step(p)

Spec == Init /\ [][Next]_vars

\* readResponse is a loop of straight-line code (lines 277-300): a call
\* that is in it goes on with its next iteration
\* a response whose body comes in up to MaxChunks chunks, each read whole
LoopServer ==
    [SmallServer(CkC3) EXCEPT !.sizes = 1..MaxAvail, !.chunks = MaxChunks]

InitLive ==
    /\ InitCalls
    /\ srv = [p \in Handles |-> LoopServer]

SpecLive ==
    /\ InitLive
    /\ [][Next]_vars
    /\ \A p \in Handles : WF_vars(ReadResponse(p))


(***************************************************************************)
(* Calls that overlap: two callers, each on its own handle, each against a *)
(* plain server whose cookie differs from the other's.                     *)
(***************************************************************************)
InitConc ==
    /\ InitCalls
    /\ srv = [p \in Handles |-> SmallServer(IF p = 1 THEN CkC3 ELSE CkD4)]

NextConc == \E p \in Handles : CallOverlap(p) \/ Step(p)

SpecConc == InitConc /\ [][NextConc]_vars

(***************************************************************************)
(* getHeaders on its own (lines 205-236), one line of the block per step,  *)
(* started on every block of at most MaxLines lines of LinePool.           *)
(***************************************************************************)
LinePool ==
    {LnA1, LnB2, LnA3, LnKvw, LnHTTPKey, LnStatus, LnJunk, LnEmpty,
     LnBadVer, LnNoDot, LnBadMajor}

BlockLines == UNION { [1..n -> LinePool] : n \in 1..MaxLines }

InitHdr ==
    /\ cookies = <<>>
    /\ pc = [p \in Handles |-> "idle"]
    /\ req = [p \in Handles |-> <<>>]
    /\ loc = [p \in Handles |-> LocStart]
    /\ ret = [p \in Handles |-> RetStart]
    /\ log = [p \in Handles |-> <<>>]
    /\ lastQuery = [p \in Handles |-> NoQuery]
    /\ got = [p \in Handles |-> GotStart]
    /\ srv = [p \in Handles |-> SmallServer(CkC3)]
    /\ sr = SrIdle
    /\ br = BrIdle
    /\ \E lines \in BlockLines :
         gh = [GhIdle EXCEPT !.pc = "loop", !.lines = lines,
                             !.todo = Split(JoinCRLF(lines), CRLF)]

\* one iteration of the loop, lines 205-234
GhLine ==
    /\ gh.pc = "loop"
    /\ gh.todo # <<>>
    /\ LET r == HdrLine(gh.acc, Head(gh.todo))
       IN gh' = [gh EXCEPT !.acc = r, !.todo = Tail(@), !.n = @ + 1,
                           !.line = Head(gh.todo), !.before = gh.acc,
                           !.pc = IF r.err # NoErr THEN "failed" ELSE "loop"]
    /\ UNCHANGED <<cookies, pc, req, loc, ret, log, lastQuery, got, srv,
                   sr, br>>

\* line 236
GhReturn ==
    /\ gh.pc = "loop"
    /\ gh.todo = <<>>
    /\ gh' = [gh EXCEPT !.pc = "done"]
    /\ UNCHANGED <<cookies, pc, req, loc, ret, log, lastQuery, got, srv,
                   sr, br>>

NextHdr == GhLine \/ GhReturn

SpecHdr == InitHdr /\ [][NextHdr]_vars


(***************************************************************************)
(* Properties.                                                             *)
(***************************************************************************)
Queried(p) == "none" \notin DOMAIN lastQuery[p]
Returned(p) == "none" \notin DOMAIN ret[p].res

\* C1: every queryResponse invocation calls HTTPQueryInfoW once or twice.  A
\* first call that succeeds is the only call and its bytes are returned.  A
\* first call that fails reporting size S is followed by exactly one retry
\* with the same info level and index and a buffer of S bytes; the retry's
\* bytes are returned when it succeeds, and "failed to query info" with no
\* bytes when it fails.
QueryHelperRetriesOnce ==
    \A p \in Handles :
      Queried(p) =>
        LET q == lastQuery[p]
        IN /\ Len(q.calls) \in {1, 2}
           /\ q.calls[1].info = q.info
           /\ q.calls[1].idx = q.idx
           /\ q.replies[1].ok =>
                /\ Len(q.calls) = 1
                /\ q.buffer = q.replies[1].bytes
                /\ q.err = NoErr
           /\ ~q.replies[1].ok =>
                /\ Len(q.calls) = 2
                /\ q.calls[2].info = q.info
                /\ q.calls[2].idx = q.idx
                /\ q.calls[2].buf = q.replies[1].size
                /\ q.replies[2].ok =>
                     q.buffer = q.replies[2].bytes /\ q.err = NoErr
                /\ ~q.replies[2].ok =>
                     q.buffer = <<>> /\ q.err = QueryInfoError

\* a query at index 1 whose first call failed reporting 3 bytes and whose
\* retry delivered them
QueryRetriedAtIndexOne ==
    \E p \in Handles :
      /\ Queried(p)
      /\ lastQuery[p].idx = 1
      /\ Len(lastQuery[p].calls) = 2
      /\ lastQuery[p].calls[2].buf = 3
      /\ lastQuery[p].buffer = CkC3
      /\ lastQuery[p].err = NoErr

\* the indices of the Set-Cookie queries made on the handle, in order
CookieProbes(p) ==
    LET probes == SelectSeq(log[p],
                    LAMBDA c : c.op = "QueryInfo"
                               /\ c.info = HTTPQuerySetCookie)
    IN [j \in 1..Len(probes) |-> probes[j].idx]

\* the cookie is the field `bytes`, cut at its first "="
CookieIsField(c, bytes) ==
    /\ c.Name \o Equals \o c.Value = bytes
    /\ \A j \in 1..Len(c.Name) : c.Name[j] # "="

\* getCookies has just returned on handle p: its last probe failed
CookiesEnumerated(p) ==
    /\ Queried(p)
    /\ lastQuery[p].info = HTTPQuerySetCookie
    /\ lastQuery[p].err # NoErr

\* C2: the Set-Cookie probes of a call are made at indices 0, 1, 2, ... in
\* this order and at most one of them fails; when the probe at index k fails
\* after the probes at 0..k-1 succeeded, getCookies returns exactly k
\* cookies, the j-th being the field delivered at index j-1, no further
\* index is probed, and the call goes on without an error.
CookieEnumerationStopsAtFirstFailure ==
    \A p \in Handles :
      LET probes == CookieProbes(p)
          k == Len(got[p].cookies)
      IN /\ \A j \in 1..Len(probes) : probes[j] = j - 1
         /\ Len(probes) \in {k, k + 1}
         /\ CookiesEnumerated(p) =>
              /\ Len(probes) = k + 1
              /\ lastQuery[p].idx = k
              /\ Len(loc[p].gcCookies) = k
              /\ \A j \in 1..k :
                   CookieIsField(loc[p].gcCookies[j], got[p].cookies[j])
              /\ cookies = loc[p].gcCookies
              /\ pc[p] = "getHeaders"
              /\ ret[p] = RetStart

\* two fields delivered at indices 0 and 1, the probe at index 2 failed
TwoCookiesEnumerated ==
    \E p \in Handles :
      /\ CookiesEnumerated(p)
      /\ got[p].cookies = <<CkAbc, CkC3>>
      /\ CookieProbes(p) = <<0, 1, 2>>
      /\ loc[p].gcCookies =
           <<Cookie(<<"A">>, <<"b", "=", "c">>), Cookie(<<"C">>, <<"3">>)>>

\* C3: when calls do not overlap, the cookie list of every Response returned
\* is the request's cookies in their order followed by the cookies of the
\* fields the engine delivered during this call, in the order delivered;
\* nothing is removed for a repeated name and nothing is left from an
\* earlier call.
CookieMergeRequestThenResponse ==
    \A p \in Handles :
      pc[p] = "done" =>
        LET cs == ret[p].res.Cookies
            n == Len(req[p])
            m == Len(got[p].cookies)
        IN /\ Len(cs) = n + m
           /\ SubSeq(cs, 1, n) = req[p]
           /\ \A j \in 1..m : CookieIsField(cs[n + j], got[p].cookies[j])

\* request cookies A=1, B=2 and the response field "A=b=c": the name A stays
\* twice
MergedWithRepeatedName ==
    \E p \in Handles :
      /\ pc[p] = "done"
      /\ req[p] = <<CookieA1, CookieB2>>
      /\ ret[p].res.Cookies =
           <<CookieA1, CookieB2, Cookie(<<"A">>, <<"b", "=", "c">>)>>


\* C4: when calls on different handles overlap, every cookie of a Response
\* returned for a handle is a cookie of that call's request or the cookie of
\* a field the engine delivered on that handle during that call.
ResponseCookiesAreOwn ==
    \A p \in Handles :
      pc[p] = "done" =>
        \A j \in 1..Len(ret[p].res.Cookies) :
          LET c == ret[p].res.Cookies[j]
          IN \/ \E i \in 1..Len(req[p]) : req[p][i] = c
             \/ \E i \in 1..Len(got[p].cookies) :
                  CookieIsField(c, got[p].cookies[i])

RECURSIVE Flatten(_)
Flatten(chunks) ==
    IF chunks = <<>> THEN <<>> ELSE chunks[1] \o Flatten(Tail(chunks))

RECURSIVE Sum(_)
Sum(sizes) == IF sizes = <<>> THEN 0 ELSE sizes[1] + Sum(Tail(sizes))

\* readResponse has returned a body on handle p
BodyRead(p) == pc[p] \in {"assemble", "done"}

\* C5: when readResponse returns a body after reads that each delivered the
\* byte count reported available, the body is the chunks read, joined in the
\* order read, and the content length is the sum of the reported counts,
\* which is the number of bytes of the body; the Response returned carries
\* both.
ChunksAccumulateInOrder ==
    \A p \in Handles :
      (BodyRead(p) /\ ~got[p].short) =>
        /\ \A j \in 1..Len(got[p].sizes) :
             Len(got[p].chunks[j]) = got[p].sizes[j]
        /\ loc[p].b = Flatten(got[p].chunks)
        /\ loc[p].contentLen = Sum(got[p].sizes)
        /\ loc[p].contentLen = Len(loc[p].b)
        /\ pc[p] = "done" =>
             /\ ret[p].res.Body = Flatten(got[p].chunks)
             /\ ret[p].res.ContentLength = Sum(got[p].sizes)

\* available counts 2, 1, 0: a Response with the body "abc" of length 3
TwoChunksRead ==
    \E p \in Handles :
      /\ pc[p] = "done"
      /\ got[p].sizes = <<2, 1>>
      /\ got[p].chunks = <<(<<"a", "b">>), (<<"c">>)>>
      /\ ret[p].res.Body = <<"a", "b", "c">>
      /\ ret[p].res.ContentLength = 3

\* C6: once a read has delivered fewer bytes than the count reported
\* available, readResponse fails (no further chunk is read and no body is
\* returned); a failed readResponse returns no body; and a body returned has
\* as many bytes as the content length returned with it.
ShortOrFailedReadFails ==
    \A p \in Handles :
      /\ got[p].short => pc[p] = "failed" /\ ret[p].err = ReadDataError
      /\ pc[p] = "failed" => ~Returned(p)
      /\ BodyRead(p) => loc[p].contentLen = Len(loc[p].b)


\* the text is one or more decimal digits
IsDecimalText(t) == Len(t) > 0 /\ \A j \in 1..Len(t) : t[j] \in Digits

RECURSIVE Pow10(_)
Pow10(n) == IF n = 0 THEN 1 ELSE 10 * Pow10(n - 1)

\* the number a text of decimal digits denotes, digit by place value
RECURSIVE PlaceValue(_)
PlaceValue(t) ==
    IF t = <<>> THEN 0
    ELSE DigitVal(t[1]) * Pow10(Len(t) - 1) + PlaceValue(Tail(t))

\* C7: in every Response returned, the status line is the status-code text
\* the engine delivered, alone when the status text delivered is empty and
\* followed by one space and the status text otherwise; the status code is
\* the number the code text denotes in decimal.
StatusLineFromCodeAndText ==
    \A p \in Handles :
      pc[p] = "done" =>
        /\ got[p].text = <<>> => ret[p].res.Status = got[p].code
        /\ got[p].text # <<>> =>
             ret[p].res.Status = got[p].code \o <<" ">> \o got[p].text
        /\ IsDecimalText(got[p].code)
        /\ ret[p].res.StatusCode = PlaceValue(got[p].code)

\* code "404" with text "Not Found": status line "404 Not Found", code 404
NotFoundStatus ==
    \E p \in Handles :
      /\ pc[p] = "done"
      /\ got[p].code = T404
      /\ got[p].text = TNotFound
      /\ ret[p].res.Status =
           <<"4", "0", "4", " ", "N", "o", "t", " ", "F", "o", "u", "n", "d">>
      /\ ret[p].res.StatusCode = 404

\* code "200" with an empty status text: status line "200", code 200
OkStatusAlone ==
    \E p \in Handles :
      /\ pc[p] = "done"
      /\ got[p].code = T200
      /\ got[p].text = <<>>
      /\ ret[p].res.Status = <<"2", "0", "0">>
      /\ ret[p].res.StatusCode = 200

\* C8: when the status-code query has been made and has not delivered a
\* decimal text (it failed twice, or delivered something else), the call has
\* failed: it returns an error and no Response, and the status-code query is
\* the only operation it asked of the handle.
StatusCodeMandatory ==
    \A p \in Handles :
      (log[p] # <<>> /\ ~IsDecimalText(got[p].code)) =>
        /\ pc[p] = "failed"
        /\ ret[p].err # NoErr
        /\ ~Returned(p)
        /\ log[p] = <<QueryOp(HTTPQueryStatusCode, 0)>>

\* the engine delivered "2x" as the status code and the call failed
NonNumericStatusFailed ==
    \E p \in Handles :
      /\ pc[p] = "failed"
      /\ got[p].code = T2x
      /\ ret[p].err = StatusInvalid

\* the status-code query failed twice and the call failed
StatusQueryFailed ==
    \E p \in Handles :
      /\ pc[p] = "failed"
      /\ Len(log[p]) = 1
      /\ lastQuery[p].info = HTTPQueryStatusCode
      /\ lastQuery[p].err = QueryInfoError
      /\ ret[p].err = QueryInfoError


\* the well-formed "key: value" lines of LinePool, with their key and value
WellFormed ==
    {[line |-> LnA1, key |-> <<"A">>, value |-> <<"1">>],
     [line |-> LnB2, key |-> <<"B">>, value |-> <<"2">>],
     [line |-> LnA3, key |-> <<"A">>, value |-> <<"3">>],
     [line |-> LnKvw, key |-> <<"k">>, value |-> <<"v", ":", " ", "w">>],
     [line |-> LnHTTPKey, key |-> HTTPToken, value |-> <<"x">>]}

WellFormedLines == {w.line : w \in WellFormed}
EntryOf(line) == CHOOSE w \in WellFormed : w.line = line

\* the block is made of one "HTTP/1.1 200 OK" line and well-formed lines
StatusAndWellFormed(lines) ==
    /\ Cardinality({j \in 1..Len(lines) : lines[j] = LnStatus}) = 1
    /\ \A j \in 1..Len(lines) : lines[j] \in WellFormedLines \cup {LnStatus}

\* the values of the well-formed lines of key k, in the order of the lines
ValuesOf(lines, k) ==
    LET mine == SelectSeq(lines,
                  LAMBDA l : l \in WellFormedLines /\ EntryOf(l).key = k)
    IN [j \in 1..Len(mine) |-> EntryOf(mine[j]).value]

RECURSIVE CountValues(_, _)
CountValues(hdrs, keys) ==
    IF keys = {} THEN 0
    ELSE LET k == CHOOSE x \in keys : TRUE
         IN Len(hdrs[k]) + CountValues(hdrs, keys \ {k})

\* C9: the parse of a block made of N well-formed "key: value" lines and one
\* "HTTP/1.1 200 OK" line does not fail, and when it returns the header map
\* holds N values in all, each key holding the values of its lines in the
\* order of the lines, with protocol "HTTP/1.1", major 1 and minor 1.
HeadersHoldEveryWellFormedLine ==
    StatusAndWellFormed(gh.lines) =>
      /\ gh.pc # "failed"
      /\ gh.pc = "done" =>
           /\ CountValues(gh.acc.hdrs, DOMAIN gh.acc.hdrs) = Len(gh.lines) - 1
           /\ \A k \in DOMAIN gh.acc.hdrs :
                gh.acc.hdrs[k] = ValuesOf(gh.lines, k)
           /\ \A j \in 1..Len(gh.lines) :
                gh.lines[j] \in WellFormedLines =>
                  EntryOf(gh.lines[j]).key \in DOMAIN gh.acc.hdrs
           /\ gh.acc.proto = <<"H", "T", "T", "P", "/", "1", ".", "1">>
           /\ gh.acc.major = 1
           /\ gh.acc.minor = 1
           /\ gh.acc.err = NoErr

\* "A: 1", the status line, "A: 3": key A holds "1" then "3"
RepeatedKeyParsed ==
    /\ gh.pc = "done"
    /\ gh.lines = <<LnA1, LnStatus, LnA3>>
    /\ gh.acc.hdrs[<<"A">>] = <<(<<"1">>), (<<"3">>)>>
    /\ gh.acc.major = 1

StartsWithHTTP(line) ==
    /\ Len(line) >= 4
    /\ line[1] = "H" /\ line[2] = "T" /\ line[3] = "T" /\ line[4] = "P"

\* the line holds no ": " and does not start with "HTTP"
Malformed(line) ==
    /\ \A j \in 1..(Len(line) - 1) : ~(line[j] = ":" /\ line[j + 1] = " ")
    /\ ~StartsWithHTTP(line)

\* C10: a line without ": " that does not start with "HTTP" leaves the
\* header map, the protocol name, major and minor as they were and does not
\* fail the parse; and the parse of a block none of whose lines starts with
\* "HTTP" never fails and returns an empty protocol name, major 0, minor 0.
MalformedLinesDropped ==
    /\ (gh.n > 0 /\ Malformed(gh.line)) =>
         /\ gh.acc = gh.before
         /\ gh.pc # "failed"
    /\ (\A j \in 1..Len(gh.lines) : ~StartsWithHTTP(gh.lines[j])) =>
         /\ gh.pc # "failed"
         /\ gh.acc.proto = <<>>
         /\ gh.acc.major = 0
         /\ gh.acc.minor = 0
         /\ gh.acc.err = NoErr

\* "A: 1", "junk", "": one header, no protocol, the parse returned
JunkLineDropped ==
    /\ gh.pc = "done"
    /\ gh.lines = <<LnA1, LnJunk, LnEmpty>>
    /\ gh.n = 3
    /\ DOMAIN gh.acc.hdrs = {<<"A">>}
    /\ gh.acc.hdrs[<<"A">>] = <<(<<"1">>)>>
    /\ gh.acc.proto = <<>>


(***************************************************************************)
(* sendRequest (lines 309-365): the cookies and the headers of the Request *)
(* are attached to the request handle, then the request is transmitted.    *)
(* Every engine call may succeed or fail; sr.calls keeps the calls made,   *)
(* in order, with what was passed and whether the call succeeded.          *)
(***************************************************************************)
\* the modes of HTTPAddRequestHeadersW, as sets of the flags or-ed together
HTTPAddreqFlagAdd == {"ADD"}
HTTPAddreqFlagAddIfNew == {"ADD_IF_NEW"}
HTTPAddreqFlagReplace == {"REPLACE"}

AddCookiesError == "failed to add cookies"
AddHeadersError == "failed to add request headers"
SendRequestError == "failed to send request"

CookieColon == <<"C", "o", "o", "k", "i", "e", ":", " ">>
\* "Cookie: ignore=ignore", line 321
SentinelLine == CookieColon \o <<"i", "g", "n", "o", "r", "e", "=",
                                 "i", "g", "n", "o", "r", "e">>

\* a call of HTTPAddRequestHeadersW(reqHndl, line, mode)
AddCall(line, mode, ok) ==
    [op |-> "AddRequestHeaders", line |-> line, mode |-> mode,
     body |-> <<>>, len |-> 0, ok |-> ok]

\* a call of HTTPSendRequestW(reqHndl, headers, headersLen, body, bodyLen);
\* headers is kept in the `line` field
SendCall(headers, body, bodyLen, ok) ==
    [op |-> "SendRequest", line |-> headers, mode |-> {},
     body |-> body, len |-> bodyLen, ok |-> ok]

\* line 329
CookieLine(c) == CookieColon \o c.Name \o Equals \o c.Value

\* line 344
HeaderLine(k, v) == k \o ColonSpace \o v

CookieMethodIfNew == HTTPAddreqFlagAddIfNew

\* line 314: the mode of the cookie loop
CookieMethod == HTTPAddreqFlagAdd

\* lines 338-339: the mode of the header loop
HeaderMethod == HTTPAddreqFlagAdd \cup HTTPAddreqFlagReplace

\* the Requests sendRequest is called with
SendCookieChoices ==
    {<<>>, <<CookieA1>>, <<CookieA1, CookieB2>>, <<CookieB2, CookieA1>>}

HdrX == <<"X">>
HdrY == <<"Y", "-", "Z">>

SendHeaderChoices ==
    {<<>>,
     [k \in {HdrX} |-> <<"1">>],
     [k \in {HdrX, HdrY} |-> IF k = HdrX THEN <<"1">> ELSE <<"v", ":", " ", "w">>]}

SendBodyChoices == {<<>>, <<"a", "b">>}

InitSend ==
    /\ cookies = <<>>
    /\ pc = [p \in Handles |-> "idle"]
    /\ req = [p \in Handles |-> <<>>]
    /\ loc = [p \in Handles |-> LocStart]
    /\ ret = [p \in Handles |-> RetStart]
    /\ log = [p \in Handles |-> <<>>]
    /\ lastQuery = [p \in Handles |-> NoQuery]
    /\ got = [p \in Handles |-> GotStart]
    /\ srv = [p \in Handles |-> SmallServer(CkC3)]
    /\ gh = GhIdle
    /\ br = BrIdle
    /\ \E cs \in SendCookieChoices, hs \in SendHeaderChoices,
          body \in SendBodyChoices :
         sr = [SrIdle EXCEPT !.pc = "sentinel", !.cookies = cs,
                             !.headers = hs, !.body = body,
                             !.todo = DOMAIN hs]

\* where sendRequest goes on after a successful attachment: the cookie
\* loop (line 326), the header loop (line 341), the transmit (line 353)
SrAfter(i, todo) ==
    IF i < Len(sr.cookies) THEN "cookies"
    ELSE IF todo # {} THEN "headers"
    ELSE "send"

\* lines 318-323: the result of the call is not looked at
SendSentinel ==
    /\ sr.pc = "sentinel"
    /\ \E ok \in BOOLEAN :
         sr' = [sr EXCEPT
             !.calls = Append(@, AddCall(SentinelLine,
                                         HTTPAddreqFlagAddIfNew, ok)),
             !.pc = SrAfter(0, sr.todo)]
    /\ UNCHANGED <<cookies, pc, req, loc, ret, log, lastQuery, got, srv,
                   gh, br>>

CookieAddNeverAborts(ok) == FALSE

\* line 332: if e != nil
CookieAddAborts(ok) == ~ok

\* one iteration of the cookie loop, lines 326-335
SendCookie ==
    /\ sr.pc = "cookies"
    /\ \E ok \in BOOLEAN :
         LET c == sr.cookies[sr.i + 1]
             call == AddCall(CookieLine(c), CookieMethod, ok)
         IN sr' = IF CookieAddAborts(ok)
                  THEN [sr EXCEPT !.calls = Append(@, call),
                                  !.pc = "returned",
                                  !.err = AddCookiesError]
                  ELSE [sr EXCEPT !.calls = Append(@, call),
                                  !.i = @ + 1,
                                  !.pc = SrAfter(sr.i + 1, sr.todo)]
    /\ UNCHANGED <<cookies, pc, req, loc, ret, log, lastQuery, got, srv,
                   gh, br>>

\* one iteration of the header loop, lines 341-350; the loop ranges over
\* r.Headers in an order the code does not choose
SendHeader ==
    /\ sr.pc = "headers"
    /\ \E k \in sr.todo, ok \in BOOLEAN :
         LET call == AddCall(HeaderLine(k, sr.headers[k]), HeaderMethod, ok)
         IN sr' = IF ~ok
                  THEN [sr EXCEPT !.calls = Append(@, call),
                                  !.pc = "returned",
                                  !.err = AddHeadersError]
                  ELSE [sr EXCEPT !.calls = Append(@, call),
                                  !.todo = @ \ {k},
                                  !.pc = SrAfter(sr.i, sr.todo \ {k})]
    /\ UNCHANGED <<cookies, pc, req, loc, ret, log, lastQuery, got, srv,
                   gh, br>>

\* lines 352-364
SendTransmit ==
    /\ sr.pc = "send"
    /\ \E ok \in BOOLEAN :
         sr' = [sr EXCEPT
             !.calls = Append(@, SendCall(<<>>, sr.body, Len(sr.body), ok)),
             !.pc = "returned",
             !.err = IF ok THEN NoErr ELSE SendRequestError]
    /\ UNCHANGED <<cookies, pc, req, loc, ret, log, lastQuery, got, srv,
                   gh, br>>

NextSend == SendSentinel \/ SendCookie \/ SendHeader \/ SendTransmit

SpecSend == InitSend /\ [][NextSend]_vars

(***************************************************************************)
(* buildRequest (lines 21-89): the URL is parsed, a connection is made,    *)
(* a request is opened on it.  br.calls keeps the engine calls made, in    *)
(* order, with what was passed and what the engine answered.               *)
(***************************************************************************)
\* the flags of InternetConnectW and HTTPOpenRequestW, as sets of the
\* flags or-ed together
InternetFlagSecure == {"SECURE"}
InternetFlagKeepConnection == {"KEEP_CONNECTION"}
InternetServiceHTTP == "HTTP"

ParseURLError == "failed to parse url"
PortInvalidError == "port invalid"
ConnectError == "failed to create connection"
OpenRequestError == "failed to open request"

\* what url.Parse makes of r.URL: an error, or the parts of the URL
MalformedURL ==
    [ok |-> FALSE, Scheme |-> "", Hostname |-> "", Port |-> <<>>,
     Username |-> "", Password |-> "", Path |-> <<>>, RawQuery |-> <<>>]

\* a port of 20 digits: url.Parse takes any digits, ParseInt does not
PortHuge == [i \in 1..20 |-> "9"]

URLChoices ==
    {MalformedURL} \cup
    { [ok |-> TRUE, Scheme |-> s, Hostname |-> "host", Port |-> port,
       Username |-> u[1], Password |-> u[2],
       Path |-> <<"/", "a">>, RawQuery |-> q] :
         s \in {"http", "https", "ftp"},
         port \in {<<>>, <<"8", "0">>, PortHuge},
         u \in {<<"", "">>, <<"bob", "pw">>},
         q \in {<<>>, <<"x", "=", "1">>} }

MethodChoices == {"GET", "POST"}

\* the handles the engine gives out
ConnHandles == {3}
ReqHandles == {1, 2}

\* a call of InternetConnectW, lines 51-60
ConnectCall(host, port, user, pass, service, flags, ok, h) ==
    [op |-> "Connect", host |-> host, port |-> port, user |-> user,
     pass |-> pass, service |-> service, conn |-> 0, method |-> "",
     target |-> <<>>, flags |-> flags, ok |-> ok, hndl |-> h]

\* a call of HTTPOpenRequestW, lines 74-83
OpenCall(conn, method, target, flags, ok, h) ==
    [op |-> "OpenRequest", host |-> "", port |-> 0, user |-> "",
     pass |-> "", service |-> "", conn |-> conn, method |-> method,
     target |-> target, flags |-> flags, ok |-> ok, hndl |-> h]

InitBuild ==
    /\ cookies = <<>>
    /\ pc = [p \in Handles |-> "idle"]
    /\ req = [p \in Handles |-> <<>>]
    /\ loc = [p \in Handles |-> LocStart]
    /\ ret = [p \in Handles |-> RetStart]
    /\ log = [p \in Handles |-> <<>>]
    /\ lastQuery = [p \in Handles |-> NoQuery]
    /\ got = [p \in Handles |-> GotStart]
    /\ srv = [p \in Handles |-> SmallServer(CkC3)]
    /\ gh = GhIdle
    /\ sr = SrIdle
    /\ \E u \in URLChoices, method \in MethodChoices :
         br = [BrIdle EXCEPT !.pc = "parse", !.url = u, !.method = method]

\* lines 45-48; flags starts as 0
SchemeFlags(scheme) == IF scheme = "https" THEN InternetFlagSecure ELSE {}

\* lines 31-48: the URL, its port, the flags of its scheme
BuildParse ==
    /\ br.pc = "parse"
    /\ LET uri == br.url
           port == ParseInt(uri.Port)
       IN br' = IF ~uri.ok
                THEN [br EXCEPT !.pc = "returned", !.hndl = 0,
                                !.err = ParseURLError]
                ELSE IF uri.Port # <<>> /\ ~port.ok
                THEN [br EXCEPT !.pc = "returned", !.hndl = 0,
                                !.err = PortInvalidError]
                ELSE [br EXCEPT !.pc = "connect",
                                !.port = IF uri.Port # <<>> THEN port.val
                                         ELSE 0,
                                !.flags = SchemeFlags(uri.Scheme)]
    /\ UNCHANGED <<cookies, pc, req, loc, ret, log, lastQuery, got, srv,
                   gh, sr>>

\* lines 50-63
BuildConnect ==
    /\ br.pc = "connect"
    /\ \E ok \in BOOLEAN, h \in ConnHandles :
         LET uri == br.url
             call == ConnectCall(uri.Hostname, br.port, uri.Username,
                                 uri.Password, InternetServiceHTTP,
                                 br.flags, ok, IF ok THEN h ELSE 0)
         IN br' = IF ~ok
                  THEN [br EXCEPT !.calls = Append(@, call),
                                  !.pc = "returned", !.hndl = 0,
                                  !.err = ConnectError]
                  ELSE [br EXCEPT !.calls = Append(@, call),
                                  !.conn = h, !.pc = "open"]
    /\ UNCHANGED <<cookies, pc, req, loc, ret, log, lastQuery, got, srv,
                   gh, sr>>

\* lines 65-68: the path, and the query string when there is one
Target(uri) ==
    uri.Path \o (IF uri.RawQuery # <<>> THEN <<"?">> \o uri.RawQuery
                 ELSE <<>>)

OpenFlagsKeepOnly(flags) == InternetFlagKeepConnection

\* line 71: flags |= InternetFlagKeepConnection
OpenFlags(flags) == flags \cup InternetFlagKeepConnection

OpenResultKeepsHandle(ok, h) ==
    [hndl |-> h, err |-> IF ok THEN NoErr ELSE OpenRequestError]

\* lines 84-88: what buildRequest returns after HTTPOpenRequestW
OpenResult(ok, h) ==
    IF ok THEN [hndl |-> h, err |-> NoErr]
    ELSE [hndl |-> 0, err |-> OpenRequestError]

\* lines 65-88; a failing HTTPOpenRequestW may leave any value in reqHndl
BuildOpen ==
    /\ br.pc = "open"
    /\ \E ok \in BOOLEAN, h \in ReqHandles :
         LET flags == OpenFlags(br.flags)
             call == OpenCall(br.conn, br.method, Target(br.url), flags,
                              ok, h)
             r == OpenResult(ok, h)
         IN br' = [br EXCEPT !.calls = Append(@, call), !.flags = flags,
                             !.pc = "returned", !.hndl = r.hndl,
                             !.err = r.err]
    /\ UNCHANGED <<cookies, pc, req, loc, ret, log, lastQuery, got, srv,
                   gh, sr>>

NextBuild == BuildParse \/ BuildConnect \/ BuildOpen

SpecBuild == InitBuild /\ [][NextBuild]_vars


(***************************************************************************)
(* Properties of sendRequest.                                              *)
(***************************************************************************)
\* the attachment calls made so far
Attachments == {j \in 1..Len(sr.calls) : sr.calls[j].op = "AddRequestHeaders"}

\* C11: every failing header-attachment call (the sentinel cookie add, a
\* real cookie add, a header add) is the last call of sendRequest, which
\* has returned an error: no attachment and no transmit follows it.
AttachFailureAborts ==
    \A j \in Attachments :
        ~sr.calls[j].ok =>
            /\ j = Len(sr.calls)
            /\ sr.pc = "returned"
            /\ sr.err # NoErr

\* a failing add of a real cookie or of a header does end the call, and
\* the calls made before it stay as they are
RealAttachFailureAborts ==
    \A j \in Attachments :
        (j > 1 /\ ~sr.calls[j].ok) =>
            /\ j = Len(sr.calls)
            /\ sr.pc = "returned"
            /\ sr.err \in {AddCookiesError, AddHeadersError}

\* the sentinel add failed and the request was transmitted all the same
SentinelFailedThenSent ==
    /\ sr.pc = "returned"
    /\ sr.err = NoErr
    /\ ~sr.calls[1].ok
    /\ sr.calls[Len(sr.calls)].op = "SendRequest"

\* the text of a request cookie as a header line
ExpectedCookieLine(c) ==
    <<"C", "o", "o", "k", "i", "e", ":", " ">> \o c.Name \o <<"=">> \o c.Value

\* the text of a header entry as a header line
ExpectedHeaderLine(k) == k \o <<":", " ">> \o sr.headers[k]

\* the number of calls of a sendRequest that attaches everything and sends
FullRun == 1 + Len(sr.cookies) + Cardinality(DOMAIN sr.headers) + 1

\* C12: the calls of sendRequest are, in order: the sentinel cookie line
\* with add-if-new, one Cookie line per request cookie in the caller's
\* order with plain add, every header entry once with add+replace, then
\* one transmit with empty extra headers, the body and its length; nothing
\* follows the transmit, and a call that returns no error has transmitted.
SenderCallOrder ==
    LET calls == sr.calls
        n == Len(sr.cookies)
        keys == DOMAIN sr.headers
    IN /\ Len(calls) <= FullRun
       /\ \A j \in 1..Len(calls) :
            /\ j = 1 =>
                 /\ calls[j].op = "AddRequestHeaders"
                 /\ calls[j].line = <<"C", "o", "o", "k", "i", "e", ":", " ",
                                      "i", "g", "n", "o", "r", "e", "=",
                                      "i", "g", "n", "o", "r", "e">>
                 /\ calls[j].mode = {"ADD_IF_NEW"}
            /\ (1 < j /\ j <= n + 1) =>
                 /\ calls[j].op = "AddRequestHeaders"
                 /\ calls[j].line = ExpectedCookieLine(sr.cookies[j - 1])
                 /\ calls[j].mode = {"ADD"}
            /\ (n + 1 < j /\ j < FullRun) =>
                 /\ calls[j].op = "AddRequestHeaders"
                 /\ \E k \in keys : calls[j].line = ExpectedHeaderLine(k)
                 /\ calls[j].mode = {"ADD", "REPLACE"}
            /\ j = FullRun =>
                 /\ calls[j].op = "SendRequest"
                 /\ calls[j].line = <<>>
                 /\ calls[j].body = sr.body
                 /\ calls[j].len = Len(sr.body)
       /\ \A i, j \in (n + 2)..Len(calls) :
            (i < j /\ j < FullRun) => calls[i].line # calls[j].line
       /\ (sr.pc = "returned" /\ sr.err = NoErr) => Len(calls) = FullRun

\* a request with two cookies, two headers and a body was transmitted
FullRequestSent ==
    /\ sr.pc = "returned"
    /\ sr.err = NoErr
    /\ Len(sr.cookies) = 2
    /\ Cardinality(DOMAIN sr.headers) = 2
    /\ sr.body # <<>>
    /\ sr.calls[Len(sr.calls)].op = "SendRequest"


(***************************************************************************)
(* Properties of buildRequest.                                             *)
(***************************************************************************)
\* the flags a URL's scheme asks for
SecureIffHTTPS == IF br.url.Scheme = "https" THEN {"SECURE"} ELSE {}

\* C13: the flags passed to the Connect call hold the secure flag exactly
\* when the scheme is https, and nothing else; the flags passed to the
\* open-request call are those or-ed with keep-connection, for every
\* scheme; a URL without a port passes port 0 to Connect, and a URL with
\* one passes its decimal value.
BuilderFlags ==
    \A j \in 1..Len(br.calls) :
        LET call == br.calls[j]
        IN /\ call.op = "Connect" =>
                /\ call.flags = SecureIffHTTPS
                /\ br.url.Port = <<>> => call.port = 0
                /\ br.url.Port = <<"8", "0">> => call.port = 80
           /\ call.op = "OpenRequest" =>
                /\ call.flags = SecureIffHTTPS \cup {"KEEP_CONNECTION"}
                /\ "KEEP_CONNECTION" \in call.flags

\* a request was opened for an https URL without a port
SecureRequestOpened ==
    /\ br.url.Scheme = "https"
    /\ br.url.Port = <<>>
    /\ Len(br.calls) = 2
    /\ br.calls[1].op = "Connect"
    /\ br.calls[2].op = "OpenRequest"

\* a request was opened for a URL that is not https
PlainRequestOpened ==
    /\ br.url.Scheme = "ftp"
    /\ br.url.Port = <<"8", "0">>
    /\ Len(br.calls) = 2
    /\ br.calls[2].flags = {"KEEP_CONNECTION"}

\* C14: buildRequest returns an error and handle 0, or no error and the
\* handle the engine returned from the open-request call; the engine is
\* called at most twice, Connect first and OpenRequest only after a
\* Connect that succeeded; a URL that does not parse makes no engine call;
\* a failing call is the last one.
BuilderOutcome ==
    LET calls == br.calls
    IN /\ br.pc = "returned" =>
            \/ br.err # NoErr /\ br.hndl = 0
            \/ /\ br.err = NoErr
               /\ Len(calls) = 2
               /\ calls[2].ok
               /\ br.hndl = calls[2].hndl
               /\ br.hndl # 0
       /\ Len(calls) <= 2
       /\ Len(calls) >= 1 => calls[1].op = "Connect" /\ br.url.ok
       /\ Len(calls) = 2 => calls[2].op = "OpenRequest" /\ calls[1].ok
                            /\ calls[2].conn = calls[1].hndl
       /\ \A j \in 1..Len(calls) :
            ~calls[j].ok => /\ j = Len(calls)
                            /\ br.pc = "returned"
                            /\ br.err # NoErr
       /\ (br.pc = "returned" /\ Len(calls) = 0) =>
            br.err \in {"failed to parse url", "port invalid"}

\* buildRequest returned the handle of the request the engine opened
RequestHandleReturned ==
    /\ br.pc = "returned"
    /\ br.err = NoErr
    /\ br.hndl = 2
    /\ Len(br.calls) = 2

\* the open-request call failed after a Connect that succeeded
OpenRequestFailed ==
    /\ br.pc = "returned"
    /\ br.err = "failed to open request"
    /\ Len(br.calls) = 2
    /\ br.hndl = 0

\* the port of the URL was out of range: no engine call was made
PortOutOfRange ==
    /\ br.pc = "returned"
    /\ br.err = "port invalid"
    /\ br.calls = <<>>


(***************************************************************************)
(* Properties of the assembly as a whole.                                  *)
(***************************************************************************)
\* the engine operation asked last of handle p
LastOp(p) == log[p][Len(log[p])]

\* the operation asked last of handle p is the query of this info level
LastOpQueries(p, info) ==
    /\ log[p] # <<>>
    /\ LastOp(p).op = "QueryInfo"
    /\ LastOp(p).info = info

\* C15: a buildResponse call that has returned gave a complete Response and
\* no error, or an error and no Response; a call that has failed asked
\* nothing of the engine after the operation that failed (the status code
\* query, the status text query, the raw header query, the availability
\* query or the chunk read); before it returns a call has given nothing.
AssemblyFailsFast ==
    \A p \in Handles :
      /\ pc[p] = "done" =>
           /\ ret[p].err = NoErr
           /\ Returned(p)
           /\ DOMAIN ret[p].res =
                {"Body", "ContentLength", "Header", "Proto", "ProtoMajor",
                 "ProtoMinor", "Status", "StatusCode", "Cookies"}
           /\ ret[p].res.Body = loc[p].b
           /\ ret[p].res.StatusCode = loc[p].code
      /\ pc[p] = "failed" =>
           /\ ret[p].err # NoErr
           /\ ~Returned(p)
           /\ log[p] # <<>>
           /\ ret[p].err = QueryDataError =>
                LastOp(p).op = "QueryDataAvailable"
           /\ ret[p].err = ReadDataError => LastOp(p).op = "ReadFile"
           /\ ret[p].err = StatusInvalid =>
                LastOpQueries(p, HTTPQueryStatusCode)
           /\ ret[p].err = VersionInvalid =>
                LastOpQueries(p, HTTPQueryRawHeadersCRLF)
           /\ ret[p].err = QueryInfoError =>
                /\ LastOp(p).op = "QueryInfo"
                /\ LastOp(p).info = lastQuery[p].info
                /\ lastQuery[p].err = QueryInfoError
                /\ lastQuery[p].info \in
                     {HTTPQueryStatusCode, HTTPQueryStatusText,
                      HTTPQueryRawHeadersCRLF}
           /\ ret[p].err \in {QueryDataError, ReadDataError, StatusInvalid,
                              VersionInvalid, QueryInfoError}
      /\ pc[p] \notin {"done", "failed"} => ret[p] = RetStart

\* a chunk read failed after two chunks had been read: an error, no Response
ReadFailedAfterTwoChunks ==
    \E p \in Handles :
      /\ pc[p] = "failed"
      /\ ret[p].err = ReadDataError
      /\ Len(got[p].chunks) = 2
      /\ ~Returned(p)

\* C16: a status text query that fails, after a status code query that
\* delivered a decimal value, does not make buildResponse fail.
StatusTextOptional ==
    \A p \in Handles :
      (/\ Queried(p)
       /\ lastQuery[p].info = HTTPQueryStatusText
       /\ lastQuery[p].err # NoErr) =>
          /\ pc[p] # "failed"
          /\ ret[p].err = NoErr

\* what the code does: the failing status text query fails the call with the
\* error of the query, and nothing more is asked of the engine
StatusTextFailureFails ==
    \A p \in Handles :
      (/\ Queried(p)
       /\ lastQuery[p].info = HTTPQueryStatusText
       /\ lastQuery[p].err # NoErr) =>
          /\ pc[p] = "failed"
          /\ ret[p].err = QueryInfoError
          /\ ~Returned(p)
          /\ LastOpQueries(p, HTTPQueryStatusText)

\* the text is an optional sign followed by 1 to 19 decimal digits
IsSignedDecimal(t) ==
    LET u == IF t # <<>> /\ t[1] \in {"+", "-"} THEN Tail(t) ELSE t
    IN /\ Len(u) \in 1..19
       /\ \A j \in 1..Len(u) :
            u[j] \in {"0", "1", "2", "3", "4", "5", "6", "7", "8", "9"}

\* a line that getHeaders takes for the version line and cannot read: no
\* ": " in it, HTTP at its start, and in its first field a "." with
\* something other than an integer before it (after HTTP/) or after it
BadVersionLine(line) ==
    /\ Index(line, <<":", " ">>) = 0
    /\ HasPrefix(line, <<"H", "T", "T", "P">>)
    /\ LET parts == Split(Fields(line)[1], <<".">>)
       IN /\ Len(parts) >= 2
          /\ \/ ~IsSignedDecimal(
                    Replace1(parts[1], <<"H", "T", "T", "P", "/">>, <<>>))
             \/ ~IsSignedDecimal(parts[2])

\* C17 as stated: whatever the header block holds, getHeaders does not fail.
HeaderContentNeverFails == gh.pc # "failed"

\* C17: getHeaders fails exactly on the first line of the block that has
\* no ": ", starts with HTTP and has in its first field a "." with a
\* non-integer before or after it; it then returns the error "invalid HTTP
\* version" with no protocol, versions 0 and no headers.  A block without
\* such a line is parsed without error.
HeaderParseFailsOnBadVersionOnly ==
    /\ gh.pc = "failed" =>
         /\ gh.n >= 1
         /\ BadVersionLine(gh.line)
         /\ \A j \in 1..(gh.n - 1) : ~BadVersionLine(gh.lines[j])
         /\ gh.acc = [proto |-> <<>>, major |-> 0, minor |-> 0,
                      hdrs |-> EmptyHdrs, err |-> "invalid HTTP version"]
    /\ (gh.n >= 1 /\ BadVersionLine(gh.line)) => gh.pc = "failed"
    /\ gh.pc = "done" =>
         /\ gh.acc.err = NoErr
         /\ \A j \in 1..Len(gh.lines) : ~BadVersionLine(gh.lines[j])

\* "HTTP/1.x 200 OK" after a well-formed line: the parse failed and the
\* header read before it is not returned
BadVersionRejected ==
    /\ gh.pc = "failed"
    /\ gh.n = 2
    /\ gh.lines[1] = LnA1
    /\ gh.line = LnBadVer
    /\ gh.acc.hdrs = EmptyHdrs

\* the name and the value of a cookie text: what is before its first "=",
\* and everything after it
NameOf(text) ==
    IF Index(text, <<"=">>) = 0 THEN text
    ELSE SubSeq(text, 1, Index(text, <<"=">>) - 1)

ValueOf(text) ==
    IF Index(text, <<"=">>) = 0 THEN <<>>
    ELSE SubSeq(text, Index(text, <<"=">>) + 1, Len(text))

\* C18: every cookie text the engine delivered has given one cookie, its
\* name the text before the first "=" and its value everything after it,
\* whatever the text holds, and the enumeration goes on.
EveryCookieTextSplits ==
    \A p \in Handles :
      /\ pc[p] # "panic"
      /\ pc[p] = "getCookies" =>
           /\ Len(loc[p].gcCookies) = Len(got[p].cookies)
           /\ loc[p].i = Len(got[p].cookies)
           /\ \A j \in 1..Len(got[p].cookies) :
                /\ loc[p].gcCookies[j].Name = NameOf(got[p].cookies[j])
                /\ loc[p].gcCookies[j].Value = ValueOf(got[p].cookies[j])

\* what the code does with the texts that hold a "=": one cookie each
CookieTextWithEqualsSplits ==
    \A p \in Handles :
      pc[p] = "getCookies" =>
        /\ Len(loc[p].gcCookies) = Len(got[p].cookies)
        /\ \A j \in 1..Len(got[p].cookies) :
             /\ Index(got[p].cookies[j], <<"=">>) > 0
             /\ loc[p].gcCookies[j].Name = NameOf(got[p].cookies[j])
             /\ loc[p].gcCookies[j].Value = ValueOf(got[p].cookies[j])

\* the operations readResponse asked of handle p
BodyOps(p) ==
    SelectSeq(log[p],
              LAMBDA o : o.op \in {"QueryDataAvailable", "ReadFile"})

\* the chunk reads asked of handle p
ReadsOf(p) ==
    Cardinality({j \in 1..Len(BodyOps(p)) : BodyOps(p)[j].op = "ReadFile"})

\* every iteration of readResponse asks one availability query, then at
\* most one read; the loop is left exactly after an availability query
\* that reported zero (a body is returned), an availability query that
\* failed or a read that failed; while the loop runs every read asked has
\* delivered its chunk
ReadLoopShape ==
    \A p \in Handles :
      LET ops == BodyOps(p)
          last == ops[Len(ops)]
      IN /\ \A j \in 1..Len(ops) :
              /\ ops[j].op = "ReadFile" =>
                   j > 1 /\ ops[j - 1].op = "QueryDataAvailable"
              /\ (ops[j].op = "QueryDataAvailable" /\ j < Len(ops)) =>
                   ops[j + 1].op = "ReadFile"
         /\ pc[p] = "readResponse" =>
              /\ ops = <<>> \/ last.op = "ReadFile"
              /\ ReadsOf(p) = Len(got[p].chunks)
         /\ BodyRead(p) =>
              /\ ops # <<>>
              /\ last.op = "QueryDataAvailable"
              /\ ReadsOf(p) = Len(got[p].chunks)
         /\ (pc[p] = "failed" /\ ret[p].err = QueryDataError) =>
              /\ last.op = "QueryDataAvailable"
              /\ ReadsOf(p) = Len(got[p].chunks)
         /\ (pc[p] = "failed" /\ ret[p].err = ReadDataError) =>
              /\ last.op = "ReadFile"
              /\ ReadsOf(p) = Len(got[p].chunks) + 1
         /\ ops # <<>> =>
              \/ pc[p] = "readResponse"
              \/ BodyRead(p)
              \/ pc[p] = "failed" /\ ret[p].err \in {QueryDataError,
                                                     ReadDataError}

\* C19: the loop of readResponse has the shape above, and, the engine
\* reporting zero bytes or failing a call after finitely many chunks, every
\* call that is in readResponse leaves it.
ReadLoopTerminates ==
    /\ []ReadLoopShape
    /\ \A p \in Handles :
         (pc[p] = "readResponse") ~> (pc[p] # "readResponse")

\* readResponse returned a body after two reads and three availability
\* queries
LoopLeftOnZero ==
    \E p \in Handles :
      /\ pc[p] = "assemble"
      /\ ReadsOf(p) = 2
      /\ Len(BodyOps(p)) = 5
      /\ BodyOps(p)[5].op = "QueryDataAvailable"

=============================================================================
